---- MODULE Spec2Model ----
(***************************************************************************)
(* Model of videocompression2.py: the command line entry point main(), the *)
(* VideoCompressor constructor with its resolution normalisation, and      *)
(* compress() driving the two ffmpeg passes through _run_ffmpeg().         *)
(*                                                                         *)
(* Strings that the program inspects character by character (the requested *)
(* resolution) are sequences of one-character strings.  The encoder and    *)
(* the probe are external processes: they are the environment and take     *)
(* their steps nondeterministically.                                       *)
(***************************************************************************)
EXTENDS Integers, Sequences, FiniteSets, TLC

\* ------------------------------------------------------------------ bounds
\* longest free-form --resolution string that is enumerated
MaxResLen == 4
\* KeyboardInterrupts delivered to one run
MaxInterrupts == 1
\* lines the encoder writes to its stderr in one pass
MaxLines == 3

\* --------------------------------------------------------------- strings
NL == "\n"
Digits == {"0", "1", "2", "3", "4", "5", "6", "7", "8", "9"}

\* Python None, kept apart from every string
None == <<"None">>

\* truthiness of an optional string: None and "" are falsy
Truthy(s) == s # None /\ s # <<>>

\* VideoCompressor.RESOLUTION_PRESETS
PresetNames ==
    { <<"1","4","4","p">>, <<"2","4","0","p">>, <<"3","6","0","p">>,
      <<"4","8","0","p">>, <<"7","2","0","p">>, <<"1","0","8","0","p">> }

RESOLUTION_PRESETS(name) ==
    CASE name = <<"1","4","4","p">>     -> <<"2","5","6","x","1","4","4">>
      [] name = <<"2","4","0","p">>     -> <<"4","2","6","x","2","4","0">>
      [] name = <<"3","6","0","p">>     -> <<"6","4","0","x","3","6","0">>
      [] name = <<"4","8","0","p">>     -> <<"8","5","4","x","4","8","0">>
      [] name = <<"7","2","0","p">>     -> <<"1","2","8","0","x","7","2","0">>
      [] name = <<"1","0","8","0","p">> -> <<"1","9","2","0","x","1","0","8","0">>

\* re.match(r'^\d+x\d+$', s): one or more digits, an x, one or more digits;
\* Python's $ also matches just before a newline that ends the string.
DigitsXDigits(b) ==
    \E i \in 2..(Len(b) - 1) :
        /\ b[i] = "x"
        /\ \A j \in 1..Len(b) : j # i => b[j] \in Digits

ReMatchWxH(s) ==
    \/ DigitsXDigits(s)
    \/ /\ Len(s) >= 1
       /\ s[Len(s)] = NL
       /\ DigitsXDigits(SubSeq(s, 1, Len(s) - 1))

\* the 240p threshold compared with < instead of <=
_normalize_resolution_StrictBound(res_str, target_size) ==
    IF res_str \in PresetNames THEN RESOLUTION_PRESETS(res_str)
    ELSE IF ~Truthy(res_str) /\ target_size <= 5
         THEN RESOLUTION_PRESETS(<<"1","4","4","p">>)
    ELSE IF ~Truthy(res_str) /\ target_size < 15
         THEN RESOLUTION_PRESETS(<<"2","4","0","p">>)
    ELSE IF ~Truthy(res_str) /\ target_size <= 50
         THEN RESOLUTION_PRESETS(<<"3","6","0","p">>)
    ELSE IF ~Truthy(res_str) /\ target_size <= 100
         THEN RESOLUTION_PRESETS(<<"4","8","0","p">>)
    ELSE res_str

\* VideoCompressor._normalize_resolution
_normalize_resolution(res_str, target_size) ==
    IF res_str \in PresetNames THEN RESOLUTION_PRESETS(res_str)
    ELSE IF ~Truthy(res_str) /\ target_size <= 5
         THEN RESOLUTION_PRESETS(<<"1","4","4","p">>)
    ELSE IF ~Truthy(res_str) /\ target_size <= 15
         THEN RESOLUTION_PRESETS(<<"2","4","0","p">>)
    ELSE IF ~Truthy(res_str) /\ target_size <= 50
         THEN RESOLUTION_PRESETS(<<"3","6","0","p">>)
    ELSE IF ~Truthy(res_str) /\ target_size <= 100
         THEN RESOLUTION_PRESETS(<<"4","8","0","p">>)
    ELSE res_str

\* VideoCompressor.__init__: the check that raises ValueError
InitRaisesValueError(res_arg, target_size) ==
    LET r == _normalize_resolution(res_arg, target_size)
    IN  Truthy(r) /\ ~ReMatchWxH(r)

\* --------------------------------------------------------------- inputs
ResAlphabet == {"9", "x", NL}

RECURSIVE StringsUpTo(_)
StringsUpTo(n) ==
    IF n = 0 THEN { <<>> }
    ELSE LET S == StringsUpTo(n - 1)
         IN  S \cup { Append(s, c) : s \in { t \in S : Len(t) = n - 1 }, c \in ResAlphabet }

\* values of args.resolution: absent, preset names, free-form strings
ResolutionArgs == {None} \cup PresetNames \cup StringsUpTo(MaxResLen)

\* values of args.target_size (argparse type=int)
TargetSizes == {-1, 0, 1, 5, 10, 11, 15, 16, 20, 21, 50, 51, 100, 101, 950}

\* what ffprobe can report; durations are in hundredths of a second:
\* 0, 83.93 s, 600 s, 5000 s
Durations == {0, 8393, 60000, 500000}
OriginalResolutions == { <<"9","x","9">>, <<"2","5","6","x","1","4","4">> }

\* encoder exit codes: success, failure, the "interrupt" code
ReturnCodes == {0, 1, 255}

\* a cleanup loop that forgets the .mbtree file
PassLogExts_OnlyLog == << "" >>

\* compress(): the cleanup loops, for ext in ['', '.mbtree']
PassLogExts == << "", ".mbtree" >>

\* the analysis state of '-passlogfile ffmpeg2pass', by file extension
PassLogFiles == { "", ".mbtree" }

\* Path.unlink(): removes the file, FileNotFoundError if there is none
unlink(files, f) ==
    IF f \in files
    THEN [files |-> files \ {f}, error |-> "none"]
    ELSE [files |-> files, error |-> "FileNotFoundError"]

\* a cleanup that unlinks without looking
RemoveIfExists_NoCheck(files, f) == unlink(files, f)

\* compress(): `if logfile.exists(): logfile.unlink()`
RemoveIfExists(files, f) ==
    IF f \in files THEN unlink(files, f) ELSE [files |-> files, error |-> "none"]

\* ------------------------------------------------------ bitrate budget
\* floor(n * f1 * f2 * ... / d) for n >= 0, d > 0, one factor at a time so
\* that no intermediate value leaves the 32-bit range
RECURSIVE MulDivStep(_, _, _, _)
MulDivStep(q, r, fs, d) ==
    IF fs = <<>> THEN q
    ELSE MulDivStep(q * Head(fs) + (r * Head(fs)) \div d,
                    (r * Head(fs)) % d, Tail(fs), d)

MulDiv(n, fs, d) == MulDivStep(n \div d, n % d, fs, d)

\* 2^20 as factors: 8388608 bits per MB over 1000 bits per kbit is 2^20/125
TwoPow20 == << 8, 8, 8, 8, 8, 8, 4 >>

\* compress(): audio_bitrate_kbps
AudioBitrateKbps(target_size) ==
    IF target_size <= 10 THEN 64 ELSE IF target_size <= 50 THEN 96 ELSE 128

\* compress(): overhead_percent, in percent
OverheadPercent(target_size) ==
    IF target_size <= 20 THEN 5 ELSE IF target_size <= 50 THEN 3 ELSE 1

\* compress(): MIN_VIDEO_BITRATE
MIN_VIDEO_BITRATE == 50000

\* variant: overhead_bits is not taken off the budget
PayloadKbps_NoOverhead(target_size, d) ==
    MulDiv(target_size * 100, TwoPow20, 125 * d)

\* (total_bits - overhead_bits) / duration / 1000, rounded down, for a
\* positive target size.  With the duration d in hundredths of a second:
\*   T * 8388608 * (100 - pct)/100 / (d/100) / 1000
\*     = T * (100 - pct) * 2^20 / (125 * d)
PayloadKbps(target_size, d) ==
    MulDiv(target_size * (100 - OverheadPercent(target_size)), TwoPow20, 125 * d)

\* compress(): `if video_total_bits < min_video_bits`
\* total - audio - overhead < 50000 * duration; a target size <= 0 leaves
\* nothing for the video
FloorApplies(target_size, d) ==
    \/ target_size <= 0
    \/ PayloadKbps(target_size, d) - AudioBitrateKbps(target_size)
           < MIN_VIDEO_BITRATE \div 1000

\* Durations of the domain on which the double arithmetic of
\* (MIN_VIDEO_BITRATE * duration) / duration gives less than 50000.0:
\* (50000 * 83.93) / 83.93 = 49999.99999999999
QuotientRoundsDown == { 8393 }

\* compress(): video_bitrate_kbps = int(video_total_bits / duration / 1000)
VideoBitrateKbps(target_size, d) ==
    IF FloorApplies(target_size, d)
    THEN IF d \in QuotientRoundsDown
         THEN MIN_VIDEO_BITRATE \div 1000 - 1
         ELSE MIN_VIDEO_BITRATE \div 1000
    ELSE PayloadKbps(target_size, d) - AudioBitrateKbps(target_size)

NoPlan == -1

\* ------------------------------------------------------- encoder commands
\* str(self.input_path), str(self.output_path)
input_path == "in.mp4"
output_path == "out.mp4"

DigitValue(c) ==
    CASE c = "0" -> 0 [] c = "1" -> 1 [] c = "2" -> 2 [] c = "3" -> 3
      [] c = "4" -> 4 [] c = "5" -> 5 [] c = "6" -> 6 [] c = "7" -> 7
      [] c = "8" -> 8 [] c = "9" -> 9

\* int(s): surrounding whitespace is dropped, then the decimal digits count
RECURSIVE IntOfDigits(_, _)
IntOfDigits(acc, s) ==
    IF s = << >> THEN acc
    ELSE IntOfDigits(acc * 10 + DigitValue(Head(s)), Tail(s))

int(s) == IntOfDigits(0, SelectSeq(s, LAMBDA c : c # NL))

\* s.split('x') of a string with one 'x'
split_x(s) ==
    LET i == CHOOSE k \in 1..Len(s) : s[k] = "x"
    IN  << SubSeq(s, 1, i - 1), SubSeq(s, i + 1, Len(s)) >>

\* compress(): scale_cmd
scale_cmd(res) ==
    LET width  == ToString(int(split_x(res)[1]))
        height == ToString(int(split_x(res)[2]))
    IN  "scale='min(" \o width \o ",iw*" \o height \o "/ih)':'min("
            \o height \o ",ih*" \o width \o "/iw)',pad=" \o width \o ":"
            \o height \o ":(ow-iw)/2:(oh-ih)/2"

\* a command that applies the filter whatever the resolutions are
cmd_base_AlwaysFilter(target_size, res, orig) ==
    << "ffmpeg", "-y", "-i", input_path, "-c:v", "libx264", "-preset", "slow",
       "-profile:v", IF target_size <= 50 THEN "baseline" ELSE "main",
       "-pix_fmt", "yuv420p", "-movflags", "+faststart",
       "-vf", scale_cmd(res) >>

\* compress(): cmd_base, with the scale and pad filter if needed
cmd_base(target_size, res, orig) ==
    << "ffmpeg", "-y", "-i", input_path, "-c:v", "libx264", "-preset", "slow",
       "-profile:v", IF target_size <= 50 THEN "baseline" ELSE "main",
       "-pix_fmt", "yuv420p", "-movflags", "+faststart" >>
      \o (IF res # orig THEN << "-vf", scale_cmd(res) >> ELSE << >>)

\* compress(): f'{n}k'
kbps(n) == ToString(n) \o "k"

\* compress(): pass1_cmd
Pass1Cmd(base, video_kbps) ==
    base \o << "-b:v", kbps(video_kbps), "-pass", "1",
               "-passlogfile", "ffmpeg2pass", "-an", "-f", "null",
               "/dev/null" >>

\* compress(): pass2_cmd
Pass2Cmd(base, video_kbps, audio_kbps) ==
    base \o << "-b:v", kbps(video_kbps),
               "-maxrate:v", kbps(video_kbps * 2),
               "-bufsize:v", kbps(video_kbps * 4),
               "-pass", "2", "-passlogfile", "ffmpeg2pass",
               "-c:a", "aac", "-b:a", kbps(audio_kbps), output_path >>

NoExit == -1

VARIABLES
    target_size_mb,   \* args.target_size
    resolution_arg,   \* args.resolution
    verbose,          \* args.verbose
    self_resolution,  \* VideoCompressor.resolution
    duration,         \* probed duration
    original_res,     \* probed resolution
    target_res,       \* compress(): target_res
    scaled,           \* compress(): '-vf' scale/pad filter is in cmd_base
    video_bitrate_kbps, \* compress(): video_bitrate_kbps
    audio_bitrate_kbps, \* compress(): audio_bitrate_kbps
    overhead_percent,   \* compress(): overhead_percent, in percent
    floored,          \* compress(): the "Adjusted target size" report was printed
    pass1_cmd,        \* compress(): pass1_cmd (empty until built)
    pass2_cmd,        \* compress(): pass2_cmd (empty until built)
    pc,               \* position of the main thread
    pass,             \* encoder pass being run (0: none yet)
    proc,             \* per pass: state of the encoder process
    returncode,       \* per pass: exit code of the encoder process
    sigterm,          \* per pass: os.killpg(..., SIGTERM) was called
    probes,           \* ffprobe processes spawned
    passlog,          \* pass-log files that exist in the working directory
    written,          \* pass-log files this job's pass 1 has written so far
    out,              \* destination file
    ci,               \* index of the cleanup loop
    warned,           \* compress(): the "more than 10% off" warning was printed
    raised,           \* exception in flight / that ended the job
    interrupts,       \* KeyboardInterrupts delivered
    exitCode,         \* process exit status
    force,            \* args.force
    response          \* what the user types at the overwrite prompt, if asked

\* One non-verbose _run_ffmpeg call, line by line
VARIABLES
    tqdm_available,   \* TQDM_AVAILABLE
    stream_duration,  \* _run_ffmpeg: duration, in seconds
    use_tqdm,         \* _run_ffmpeg: use_tqdm
    stream_pc,        \* position inside _run_ffmpeg
    process,          \* state of the encoder process
    process_returncode, \* process.returncode
    stderr_pipe,      \* lines written to process.stderr and not read yet
    helper,           \* state of a helper process the encoder started
    emitted,          \* every line the encoder wrote to its stderr
    current_time,     \* _run_ffmpeg: current_time
    last_time,        \* _run_ffmpeg: last_time (0: still 0.0, 1: a time.time())
    displayed,        \* elapsed times shown so far (pbar.n, or the printed one)
    stream_sigterm,   \* os.killpg(..., SIGTERM) was called
    stream_raised,    \* exception in flight inside _run_ffmpeg
    stream_result,    \* how _run_ffmpeg ended
    message,          \* encoder output carried by the RuntimeError
    stream_interrupts \* KeyboardInterrupts delivered

streamVars == << tqdm_available, stream_duration, use_tqdm, stream_pc, process,
                process_returncode, stderr_pipe, helper, emitted,
                current_time, last_time, displayed, stream_sigterm,
                stream_raised, stream_result, message, stream_interrupts >>

\* processes that hold the write end of process.stderr
stderr_writers ==
    (IF process = "running" THEN {"ffmpeg"} ELSE {})
        \cup (IF helper = "running" THEN {"helper"} ELSE {})

\* Two jobs started in the same working directory
VARIABLES
    job_pc,           \* per job: position in compress()
    job_ci,           \* per job: index of the cleanup loop
    workdir,          \* per pass-log path: the job whose pass 1 wrote the file
    read_from,        \* per job: jobs whose pass-log content its pass 2 read
    overwrote,        \* per job: jobs whose pass-log files its pass 1 overwrote
    deleted           \* per job: jobs whose pass-log files its cleanup removed

jobsVars == << job_pc, job_ci, workdir, read_from, overwrote, deleted >>

Jobs == {1, 2}
NoJob == 0

\* compress(): Path(f'ffmpeg2pass{ext}') and '-passlogfile ffmpeg2pass', as
\* seen from the working directory of a job
PassLogPath(job, ext) == << "ffmpeg2pass", ext >>

PassLogPaths == { PassLogPath(j, e) : j \in Jobs, e \in PassLogFiles }

planVars == << video_bitrate_kbps, audio_bitrate_kbps, overhead_percent,
              floored, pass1_cmd, pass2_cmd >>

guardVars == << force, response >>

vars == << target_size_mb, resolution_arg, verbose, self_resolution, duration,
           original_res, target_res, scaled, planVars, pc, pass, proc, returncode,
           sigterm, probes, passlog, written, out, ci, warned, raised,
           interrupts, exitCode, guardVars, streamVars, jobsVars >>

\* no _run_ffmpeg call is being followed line by line
StreamIdle ==
    /\ tqdm_available = FALSE
    /\ stream_duration = 0
    /\ use_tqdm = FALSE
    /\ stream_pc = "idle"
    /\ process = "none"
    /\ process_returncode = NoExit
    /\ stderr_pipe = << >>
    /\ helper = "none"
    /\ emitted = << >>
    /\ current_time = 0
    /\ last_time = 0
    /\ displayed = << >>
    /\ stream_sigterm = FALSE
    /\ stream_raised = "none"
    /\ stream_result = "none"
    /\ message = << >>
    /\ stream_interrupts = 0

\* no second job shares the working directory
JobsIdle ==
    /\ job_pc = [j \in Jobs |-> "idle"]
    /\ job_ci = [j \in Jobs |-> 1]
    /\ workdir = [p \in PassLogPaths |-> NoJob]
    /\ read_from = [j \in Jobs |-> {}]
    /\ overwrote = [j \in Jobs |-> {}]
    /\ deleted = [j \in Jobs |-> {}]

Init ==
    /\ target_size_mb \in TargetSizes
    /\ resolution_arg \in ResolutionArgs
    /\ verbose \in BOOLEAN
    /\ self_resolution = None
    /\ duration = 0
    /\ original_res = None
    /\ target_res = None
    /\ scaled = FALSE
    /\ video_bitrate_kbps = NoPlan
    /\ audio_bitrate_kbps = NoPlan
    /\ overhead_percent = NoPlan
    /\ floored = FALSE
    /\ pass1_cmd = << >>
    /\ pass2_cmd = << >>
    /\ pc = "start"
    /\ pass = 0
    /\ proc = [p \in 1..2 |-> "none"]
    /\ returncode = [p \in 1..2 |-> NoExit]
    /\ sigterm = [p \in 1..2 |-> FALSE]
    /\ probes = 0
    /\ passlog = {}
    /\ written = {}
    /\ out \in {"absent", "existing"}
    /\ ci = 1
    /\ warned = FALSE
    /\ raised = "none"
    /\ interrupts = 0
    /\ exitCode = NoExit
    /\ force = FALSE
    /\ response = "y"
    /\ StreamIdle
    /\ JobsIdle

\* ------------------------------------------------------------- helpers
\* sys.exit(code), or an exception reaching the interpreter's top level
Exit(code, exn) ==
    /\ pc' = "exited"
    /\ exitCode' = code
    /\ raised' = exn

\* main(): except Exception -- remove a zero-byte destination, exit 1
MainExceptOut(o) == IF o = "empty" THEN "absent" ELSE o

MainExcept(exn) ==
    /\ out' = MainExceptOut(out)
    /\ Exit(1, exn)

\* main(): except KeyboardInterrupt -- exit 130, nothing is removed
MainKeyboardInterrupt ==
    /\ Exit(130, "KeyboardInterrupt")

\* _run_ffmpeg, non-verbose: returncode not in (0, 255) raises
AcceptedReturnCodes == {0, 255}
\* _run_ffmpeg, verbose: returncode != 0 raises
AcceptedReturnCodesVerbose == {0}

\* compress(): `except Exception` -- which exceptions run the failure cleanup
IsException(exn) == exn # "KeyboardInterrupt"

\* compress(): what follows a _run_ffmpeg call that returned normally
PassReturn ==
    IF pass = 1
    THEN /\ pass' = 2
         /\ pc' = "spawn"
         /\ UNCHANGED << ci, raised >>
    ELSE /\ pc' = "cleanup"
         /\ ci' = 1
         /\ UNCHANGED << pass, raised >>

\* compress(): an exception leaves the try block of the two passes
PassRaise(exn) ==
    IF IsException(exn)
    THEN /\ pc' = "cleanup"
         /\ ci' = 1
         /\ raised' = exn
         /\ UNCHANGED << pass, exitCode, out >>
    ELSE /\ MainKeyboardInterrupt
         /\ UNCHANGED << pass, ci, out >>

\* ---------------------------------------------------------------- main
\* lines the user may type at the overwrite prompt
Responses == { "y", "Y", "n", "" }

\* str.lower()
lower(str) == CASE str = "Y" -> "y" [] str = "N" -> "n" [] OTHER -> str

\* the prompt answered by pressing Enter taken as a yes
overwrite_refused_EnterIsYes(exists, f, resp) ==
    exists /\ ~f /\ lower(resp) \notin {"y", ""}

\* main(): the destination exists, --force was not given and the answer to
\* the prompt is not a yes
overwrite_refused(exists, f, resp) ==
    exists /\ ~f /\ lower(resp) # "y"

\* main(): dependency check, input check, overwrite prompt.  input() runs
\* outside main()'s try block: an interrupt at the prompt ends the program
\* with the interpreter's own KeyboardInterrupt exit (status 130 to a shell)
main_guards ==
    /\ pc = "start"
    /\ \E depsOk \in BOOLEAN, inputExists \in BOOLEAN, ctrlC \in BOOLEAN :
          IF ~depsOk \/ ~inputExists
          THEN Exit(1, "SystemExit") /\ UNCHANGED interrupts
          ELSE IF out # "absent" /\ ~force /\ ctrlC
          THEN /\ interrupts < MaxInterrupts
               /\ interrupts' = interrupts + 1
               /\ Exit(130, "KeyboardInterrupt")
          ELSE IF overwrite_refused(out # "absent", force, response)
          THEN Exit(1, "Aborted") /\ UNCHANGED interrupts
          ELSE /\ pc' = "construct"
               /\ UNCHANGED << exitCode, raised, interrupts >>
    /\ UNCHANGED << target_size_mb, resolution_arg, verbose, self_resolution,
                    duration, original_res, target_res, scaled, pass, proc,
                    returncode, sigterm, probes, passlog, written, out, ci >>
    /\ UNCHANGED planVars
    /\ UNCHANGED warned
    /\ UNCHANGED guardVars
    /\ UNCHANGED streamVars
    /\ UNCHANGED jobsVars

\* main(): VideoCompressor(...), i.e. __init__
main_construct ==
    /\ pc = "construct"
    /\ IF InitRaisesValueError(resolution_arg, target_size_mb)
       THEN /\ MainExcept("ValueError")
            /\ UNCHANGED self_resolution
       ELSE /\ self_resolution' = _normalize_resolution(resolution_arg, target_size_mb)
            /\ pc' = "probe"
            /\ UNCHANGED << exitCode, raised, out >>
    /\ UNCHANGED << target_size_mb, resolution_arg, verbose, duration,
                    original_res, target_res, scaled, pass, proc, returncode,
                    sigterm, probes, passlog, written, ci, interrupts >>
    /\ UNCHANGED planVars
    /\ UNCHANGED warned
    /\ UNCHANGED guardVars
    /\ UNCHANGED streamVars
    /\ UNCHANGED jobsVars

\* ------------------------------------------------------------ compress
\* compress(): _get_stream_info() and the duration check
compress_probe ==
    /\ pc = "probe"
    /\ \E outcome \in {"ok", "duration_failed", "resolution_failed"},
          d \in Durations, r \in OriginalResolutions :
          CASE outcome = "duration_failed" ->
                 /\ probes' = probes + 1
                 /\ Exit(1, "ProbeError")
                 /\ UNCHANGED << duration, original_res >>
            [] outcome = "resolution_failed" ->
                 /\ probes' = probes + 2
                 /\ Exit(1, "ProbeError")
                 /\ UNCHANGED << duration, original_res >>
            [] outcome = "ok" ->
                 /\ probes' = probes + 2
                 /\ IF d <= 0
                    THEN /\ Exit(1, "ProbeError")
                         /\ UNCHANGED << duration, original_res >>
                    ELSE /\ duration' = d
                         /\ original_res' = r
                         /\ pc' = "plan"
                         /\ UNCHANGED << exitCode, raised >>
    /\ UNCHANGED << target_size_mb, resolution_arg, verbose, self_resolution,
                    target_res, scaled, pass, proc, returncode, sigterm,
                    passlog, written, out, ci, interrupts >>
    /\ UNCHANGED planVars
    /\ UNCHANGED warned
    /\ UNCHANGED guardVars
    /\ UNCHANGED streamVars
    /\ UNCHANGED jobsVars

\* compress(): target_res
TargetRes(self_res, target_size) ==
    IF ~Truthy(self_res) THEN _normalize_resolution(None, target_size)
    ELSE self_res

\* compress(): resolution selection and the command build
compress_plan ==
    /\ pc = "plan"
    /\ LET tr == TargetRes(self_resolution, target_size_mb)
       IN  /\ target_res' = tr
           /\ audio_bitrate_kbps' = AudioBitrateKbps(target_size_mb)
           /\ overhead_percent' = OverheadPercent(target_size_mb)
           /\ floored' = FloorApplies(target_size_mb, duration)
           /\ video_bitrate_kbps' = VideoBitrateKbps(target_size_mb, duration)
           /\ IF tr # original_res /\ tr = None
              THEN \* None.split('x')
                   /\ MainExcept("AttributeError")
                   /\ UNCHANGED << scaled, pass, pass1_cmd, pass2_cmd >>
              ELSE /\ scaled' = (tr # original_res)
                   /\ LET base == cmd_base(target_size_mb, tr, original_res)
                           v == VideoBitrateKbps(target_size_mb, duration)
                           a == AudioBitrateKbps(target_size_mb)
                      IN  /\ pass1_cmd' = Pass1Cmd(base, v)
                          /\ pass2_cmd' = Pass2Cmd(base, v, a)
                   /\ pass' = 1
                   /\ pc' = "spawn"
                   /\ UNCHANGED << exitCode, raised, out >>
    /\ UNCHANGED << target_size_mb, resolution_arg, verbose, self_resolution,
                    duration, original_res, proc, returncode, sigterm, probes,
                    passlog, written, ci, warned, interrupts >>
    /\ UNCHANGED guardVars
    /\ UNCHANGED streamVars
    /\ UNCHANGED jobsVars

\* _run_ffmpeg: subprocess.Popen
run_ffmpeg_spawn ==
    /\ pc = "spawn"
    /\ proc' = [proc EXCEPT ![pass] = "running"]
    /\ pc' = "run"
    /\ UNCHANGED << target_size_mb, resolution_arg, verbose, self_resolution,
                    duration, original_res, target_res, scaled, pass,
                    returncode, sigterm, probes, passlog, written, out, ci, raised,
                    interrupts, exitCode >>
    /\ UNCHANGED planVars
    /\ UNCHANGED warned
    /\ UNCHANGED guardVars
    /\ UNCHANGED streamVars
    /\ UNCHANGED jobsVars

\* _run_ffmpeg, verbose: process.wait() returned
run_ffmpeg_verbose_wait ==
    /\ pc = "run"
    /\ verbose
    /\ proc[pass] = "exited"
    /\ IF returncode[pass] \in AcceptedReturnCodesVerbose
       THEN /\ PassReturn
            /\ UNCHANGED << exitCode, out >>
       ELSE PassRaise("RuntimeError")
    /\ UNCHANGED << target_size_mb, resolution_arg, verbose, self_resolution,
                    duration, original_res, target_res, scaled, proc,
                    returncode, sigterm, probes, passlog, written, interrupts >>
    /\ UNCHANGED planVars
    /\ UNCHANGED warned
    /\ UNCHANGED guardVars
    /\ UNCHANGED streamVars
    /\ UNCHANGED jobsVars

\* _run_ffmpeg, non-verbose: readline() returned '' and the loop ends
run_ffmpeg_eof ==
    /\ pc = "run"
    /\ ~verbose
    /\ proc[pass] = "exited"
    /\ pc' = "wait"
    /\ UNCHANGED << target_size_mb, resolution_arg, verbose, self_resolution,
                    duration, original_res, target_res, scaled, pass, proc,
                    returncode, sigterm, probes, passlog, written, out, ci, raised,
                    interrupts, exitCode >>
    /\ UNCHANGED planVars
    /\ UNCHANGED warned
    /\ UNCHANGED guardVars
    /\ UNCHANGED streamVars
    /\ UNCHANGED jobsVars

\* _run_ffmpeg, non-verbose: finally: process.wait(timeout=10) returned,
\* then the pending exception continues or the return code is checked
run_ffmpeg_finish ==
    /\ pc = "wait"
    /\ proc[pass] = "exited"
    /\ IF raised # "none"
       THEN PassRaise(raised)
       ELSE IF returncode[pass] \in AcceptedReturnCodes
       THEN /\ PassReturn
            /\ UNCHANGED << exitCode, out >>
       ELSE PassRaise("RuntimeError")
    /\ UNCHANGED << target_size_mb, resolution_arg, verbose, self_resolution,
                    duration, original_res, target_res, scaled, proc,
                    returncode, sigterm, probes, passlog, written, interrupts >>
    /\ UNCHANGED planVars
    /\ UNCHANGED warned
    /\ UNCHANGED guardVars
    /\ UNCHANGED streamVars
    /\ UNCHANGED jobsVars

\* a wait whose timeout is swallowed: the pass returns with the child alive
run_ffmpeg_timeout_Swallowed ==
    /\ pc = "wait"
    /\ proc[pass] = "running"
    /\ PassReturn
    /\ UNCHANGED << target_size_mb, resolution_arg, verbose, self_resolution,
                    duration, original_res, target_res, scaled, proc,
                    returncode, sigterm, probes, passlog, written, interrupts,
                    exitCode, out >>
    /\ UNCHANGED planVars
    /\ UNCHANGED warned
    /\ UNCHANGED guardVars
    /\ UNCHANGED streamVars
    /\ UNCHANGED jobsVars

\* _run_ffmpeg, non-verbose: finally: process.wait(timeout=10) timed out;
\* TimeoutExpired replaces whatever exception was in flight
run_ffmpeg_timeout ==
    /\ pc = "wait"
    /\ proc[pass] = "running"
    /\ PassRaise("TimeoutExpired")
    /\ UNCHANGED << target_size_mb, resolution_arg, verbose, self_resolution,
                    duration, original_res, target_res, scaled, proc,
                    returncode, sigterm, probes, passlog, written, interrupts >>
    /\ UNCHANGED planVars
    /\ UNCHANGED warned
    /\ UNCHANGED guardVars
    /\ UNCHANGED streamVars
    /\ UNCHANGED jobsVars

\* KeyboardInterrupt while _run_ffmpeg is blocked on the encoder: in the
\* verbose process.wait(), in the read loop, or in the wait of the finally;
\* or in one of the cleanup loops of compress()
KeyboardInterrupt ==
    /\ pc \in {"run", "wait", "cleanup"}
    /\ interrupts < MaxInterrupts
    /\ interrupts' = interrupts + 1
    /\ IF verbose \/ pc \in {"wait", "cleanup"}
       THEN \* no handler around process.wait() or the cleanup loops: the
            \* interrupt goes up
            /\ PassRaise("KeyboardInterrupt")
            /\ UNCHANGED sigterm
       ELSE \* except KeyboardInterrupt: os.killpg(...); raise; then finally
            /\ sigterm' = [sigterm EXCEPT ![pass] = TRUE]
            /\ raised' = "KeyboardInterrupt"
            /\ pc' = "wait"
            /\ UNCHANGED << pass, ci, out, exitCode >>
    /\ UNCHANGED << target_size_mb, resolution_arg, verbose, self_resolution,
                    duration, original_res, target_res, scaled, proc,
                    returncode, probes, passlog, written >>
    /\ UNCHANGED planVars
    /\ UNCHANGED warned
    /\ UNCHANGED guardVars
    /\ UNCHANGED streamVars
    /\ UNCHANGED jobsVars

\* compress(): one iteration of a passlog cleanup loop
cleanup_step ==
    /\ pc = "cleanup"
    /\ ci <= Len(PassLogExts)
    /\ LET r == RemoveIfExists(passlog, PassLogExts[ci])
       IN  /\ passlog' = r.files
           /\ IF r.error = "none"
              THEN /\ ci' = ci + 1
                   /\ UNCHANGED << pc, raised, exitCode, out >>
              ELSE IF raised = "none"
              THEN \* raised inside the try: the `except Exception` loop runs
                   /\ raised' = r.error
                   /\ ci' = 1
                   /\ UNCHANGED << pc, exitCode, out >>
              ELSE \* raised inside the except block: up to main()
                   /\ MainExcept(r.error)
                   /\ UNCHANGED ci
    /\ UNCHANGED written
    /\ UNCHANGED << target_size_mb, resolution_arg, verbose, self_resolution,
                    duration, original_res, target_res, scaled, pass, proc,
                    returncode, sigterm, probes, interrupts >>
    /\ UNCHANGED planVars
    /\ UNCHANGED warned
    /\ UNCHANGED guardVars
    /\ UNCHANGED streamVars
    /\ UNCHANGED jobsVars

\* compress(): the cleanup loop is over: `raise` on the failure path,
\* on to the output check on the success path
cleanup_done ==
    /\ pc = "cleanup"
    /\ ci > Len(PassLogExts)
    /\ IF raised # "none"
       THEN MainExcept(raised)
       ELSE /\ pc' = "verify"
            /\ UNCHANGED << exitCode, raised, out >>
    /\ UNCHANGED << target_size_mb, resolution_arg, verbose, self_resolution,
                    duration, original_res, target_res, scaled, pass, proc,
                    returncode, sigterm, probes, passlog, written, ci, interrupts >>
    /\ UNCHANGED planVars
    /\ UNCHANGED warned
    /\ UNCHANGED guardVars
    /\ UNCHANGED streamVars
    /\ UNCHANGED jobsVars

\* compress(): verify output and the size accuracy report
compress_verify ==
    /\ pc = "verify"
    /\ IF out = "absent"
       THEN MainExcept("OutputMissing") /\ UNCHANGED warned
       ELSE IF target_size_mb = 0
       THEN MainExcept("ZeroDivisionError") /\ UNCHANGED warned
       ELSE \* size_diff > target_size_mb * 0.1: certain for an empty file or a
            \* negative target, otherwise up to the size the encoder reached
            /\ \E off \in IF out = "empty" \/ target_size_mb < 0
                           THEN {TRUE} ELSE BOOLEAN : warned' = off
            /\ Exit(0, "none")
            /\ UNCHANGED out
    /\ UNCHANGED << target_size_mb, resolution_arg, verbose, self_resolution,
                    duration, original_res, target_res, scaled, pass, proc,
                    returncode, sigterm, probes, passlog, written, ci, interrupts >>
    /\ UNCHANGED planVars
    /\ UNCHANGED guardVars
    /\ UNCHANGED streamVars
    /\ UNCHANGED jobsVars

\* ------------------------------------------------- the encoder process
EncoderAlive == pc # "exited" /\ pass \in 1..2 /\ proc[pass] = "running"

\* pass 1 writes a pass-log file
encoder_writes_passlog ==
    /\ EncoderAlive
    /\ pass = 1
    /\ \E f \in PassLogFiles :
          /\ passlog' = passlog \cup {f}
          /\ written' = written \cup {f}
    /\ UNCHANGED << target_size_mb, resolution_arg, verbose, self_resolution,
                    duration, original_res, target_res, scaled, pc, pass, proc,
                    returncode, sigterm, probes, out, ci, raised, interrupts,
                    exitCode >>
    /\ UNCHANGED planVars
    /\ UNCHANGED warned
    /\ UNCHANGED guardVars
    /\ UNCHANGED streamVars
    /\ UNCHANGED jobsVars

\* pass 2 opens (truncates), fills and finishes the destination file
OutNext(o) ==
    CASE o \in {"absent", "existing"} -> "empty"
      [] o = "empty"   -> "partial"
      [] o = "partial" -> "complete"
      [] OTHER         -> o

encoder_writes_output ==
    /\ EncoderAlive
    /\ pass = 2
    /\ out # "complete"
    /\ out' = OutNext(out)
    /\ UNCHANGED << target_size_mb, resolution_arg, verbose, self_resolution,
                    duration, original_res, target_res, scaled, pc, pass, proc,
                    returncode, sigterm, probes, passlog, written, ci, raised,
                    interrupts, exitCode >>
    /\ UNCHANGED planVars
    /\ UNCHANGED warned
    /\ UNCHANGED guardVars
    /\ UNCHANGED streamVars
    /\ UNCHANGED jobsVars

\* the encoder process ends
encoder_exits ==
    /\ EncoderAlive
    /\ \E rc \in ReturnCodes :
          /\ proc' = [proc EXCEPT ![pass] = "exited"]
          /\ returncode' = [returncode EXCEPT ![pass] = rc]
    /\ UNCHANGED << target_size_mb, resolution_arg, verbose, self_resolution,
                    duration, original_res, target_res, scaled, pc, pass,
                    sigterm, probes, passlog, written, out, ci, raised, interrupts,
                    exitCode >>
    /\ UNCHANGED planVars
    /\ UNCHANGED warned
    /\ UNCHANGED guardVars
    /\ UNCHANGED streamVars
    /\ UNCHANGED jobsVars

Next ==
    \/ main_guards
    \/ main_construct
    \/ compress_probe
    \/ compress_plan
    \/ run_ffmpeg_spawn
    \/ run_ffmpeg_verbose_wait
    \/ run_ffmpeg_eof
    \/ run_ffmpeg_finish
    \/ run_ffmpeg_timeout
    \/ KeyboardInterrupt
    \/ cleanup_step
    \/ cleanup_done
    \/ compress_verify
    \/ encoder_writes_passlog
    \/ encoder_writes_output
    \/ encoder_exits

Spec == Init /\ [][Next]_vars

\* The same job for every state of the destination file and every input of
\* the overwrite guard, with one target size and no requested resolution
InitGuard ==
    /\ target_size_mb = 10
    /\ resolution_arg = None
    /\ verbose \in BOOLEAN
    /\ self_resolution = None
    /\ duration = 0
    /\ original_res = None
    /\ target_res = None
    /\ scaled = FALSE
    /\ video_bitrate_kbps = NoPlan
    /\ audio_bitrate_kbps = NoPlan
    /\ overhead_percent = NoPlan
    /\ floored = FALSE
    /\ pass1_cmd = << >>
    /\ pass2_cmd = << >>
    /\ pc = "start"
    /\ pass = 0
    /\ proc = [p \in 1..2 |-> "none"]
    /\ returncode = [p \in 1..2 |-> NoExit]
    /\ sigterm = [p \in 1..2 |-> FALSE]
    /\ probes = 0
    /\ passlog = {}
    /\ written = {}
    /\ out \in {"absent", "existing", "empty"}
    /\ ci = 1
    /\ warned = FALSE
    /\ raised = "none"
    /\ interrupts = 0
    /\ exitCode = NoExit
    /\ force \in BOOLEAN
    /\ response \in Responses
    /\ StreamIdle
    /\ JobsIdle

SpecGuard == InitGuard /\ [][Next]_vars

TypeOK ==
    /\ pc \in {"idle", "start", "construct", "probe", "plan", "spawn", "run",
               "wait", "cleanup", "verify", "exited"}
    /\ pass \in 0..2
    /\ exitCode \in {NoExit, 0, 1, 130}
    /\ passlog \subseteq PassLogFiles
    /\ out \in {"absent", "existing", "empty", "partial", "complete"}
    /\ video_bitrate_kbps \in Int /\ video_bitrate_kbps >= NoPlan
    /\ audio_bitrate_kbps \in {NoPlan, 64, 96, 128}
    /\ overhead_percent \in {NoPlan, 1, 3, 5}
    /\ floored \in BOOLEAN
    /\ warned \in BOOLEAN
    /\ force \in BOOLEAN
    /\ response \in Responses
    /\ use_tqdm \in BOOLEAN
    /\ stream_pc \in {"idle", "setup", "loop", "wait", "done"}
    /\ process \in {"none", "running", "exited"}
    /\ helper \in {"none", "running", "exited"}
    /\ Len(emitted) <= MaxLines
    /\ Len(stderr_pipe) <= Len(emitted)
    /\ stream_result \in {"none", "returned", "RuntimeError",
                          "KeyboardInterrupt", "TimeoutExpired"}
    /\ \A j \in Jobs : job_pc[j] \in {"idle", "pass1", "pass2", "cleanup", "done"}
    /\ \A p \in PassLogPaths : workdir[p] \in Jobs \cup {NoJob}

\* ----------------------------------------------------------------------
\* One non-verbose _run_ffmpeg call: the stderr pipe and the progress reader
\* ----------------------------------------------------------------------
\* durations handed to _run_ffmpeg, in seconds, on both sides of `> 5`
StreamDurations == {3, 120}

\* HH:MM:SS markers of progress lines: 10 s, 180 s, 3605 s
Markers == { <<0, 0, 10>>, <<0, 3, 0>>, <<1, 0, 5>> }

\* stderr lines <<kind, HH, MM, SS>>: "time" has `time=HH:MM:SS.00`, "na"
\* has `time=N/A`, "err" is a diagnostic line without `time=`
StderrLines ==
    { <<"time", m[1], m[2], m[3]>> : m \in Markers }
        \cup { <<"na", 0, 0, 0>>, <<"err", 0, 0, 0>> }

\* _parse_time: hours * 3600 + minutes * 60 + seconds
_parse_time(h, m, sec) == h * 3600 + m * 60 + sec

\* re.search(r'time=(\d+:\d+:\d+\.\d+)', line) under `if 'time=' in line`
TimeMatch(line) == line[1] = "time"

Min(a, b) == IF a <= b THEN a ELSE b

\* the job of the main specification is not running
MainIdle ==
    /\ target_size_mb = 10
    /\ resolution_arg = None
    /\ verbose = FALSE
    /\ self_resolution = None
    /\ duration = 0
    /\ original_res = None
    /\ target_res = None
    /\ scaled = FALSE
    /\ video_bitrate_kbps = NoPlan
    /\ audio_bitrate_kbps = NoPlan
    /\ overhead_percent = NoPlan
    /\ floored = FALSE
    /\ pass1_cmd = << >>
    /\ pass2_cmd = << >>
    /\ pc = "idle"
    /\ pass = 0
    /\ proc = [p \in 1..2 |-> "none"]
    /\ returncode = [p \in 1..2 |-> NoExit]
    /\ sigterm = [p \in 1..2 |-> FALSE]
    /\ probes = 0
    /\ passlog = {}
    /\ written = {}
    /\ out = "absent"
    /\ ci = 1
    /\ warned = FALSE
    /\ raised = "none"
    /\ interrupts = 0
    /\ exitCode = NoExit
    /\ force = FALSE
    /\ response = "n"

mainVars == << target_size_mb, resolution_arg, verbose, self_resolution,
              duration, original_res, target_res, scaled, planVars, pc, pass,
              proc, returncode, sigterm, probes, passlog, written, out, ci,
              warned, raised, interrupts, exitCode, guardVars >>

InitStream ==
    /\ MainIdle
    /\ JobsIdle
    /\ tqdm_available \in BOOLEAN
    /\ stream_duration \in StreamDurations
    /\ use_tqdm = FALSE
    /\ stream_pc = "setup"
    /\ process = "none"
    /\ process_returncode = NoExit
    /\ stderr_pipe = << >>
    /\ helper = "none"
    /\ emitted = << >>
    /\ current_time = 0
    /\ last_time = 0
    /\ displayed = << >>
    /\ stream_sigterm = FALSE
    /\ stream_raised = "none"
    /\ stream_result = "none"
    /\ message = << >>
    /\ stream_interrupts = 0

\* _run_ffmpeg: progress setup and subprocess.Popen(cmd, stderr=PIPE, ...)
stream_spawn ==
    /\ stream_pc = "setup"
    /\ use_tqdm' = (tqdm_available /\ stream_duration > 5)
    /\ process' = "running"
    /\ stream_pc' = "loop"
    /\ UNCHANGED << helper, tqdm_available, stream_duration, process_returncode,
                    stderr_pipe, emitted, current_time, last_time, displayed,
                    stream_sigterm, stream_raised, stream_result, message,
                    stream_interrupts >>
    /\ UNCHANGED mainVars
    /\ UNCHANGED jobsVars

\* _run_ffmpeg: line = process.stderr.readline() returned a line; the body of
\* the loop for that line
stream_readline ==
    /\ stream_pc = "loop"
    /\ stderr_pipe # << >>
    /\ LET line == Head(stderr_pipe)
           t == _parse_time(line[2], line[3], line[4])
       IN  /\ stderr_pipe' = Tail(stderr_pipe)
           /\ IF TimeMatch(line)
              THEN /\ current_time' = t
                   /\ IF use_tqdm
                      THEN \* pbar.n = min(current_time, duration); refresh
                           /\ displayed' = Append(displayed,
                                                  Min(t, stream_duration))
                           /\ UNCHANGED last_time
                      ELSE \* `time.time() - last_time >= 1.0`: always true
                           \* while last_time is 0.0, up to the clock after
                           \E due \in IF last_time = 0 THEN {TRUE} ELSE BOOLEAN :
                              IF due
                              THEN /\ displayed' = Append(displayed, t)
                                   /\ last_time' = 1
                              ELSE UNCHANGED << displayed, last_time >>
              ELSE UNCHANGED << current_time, displayed, last_time >>
    /\ UNCHANGED << tqdm_available, stream_duration, use_tqdm, stream_pc,
                    process, process_returncode, helper, emitted,
                    stream_sigterm, stream_raised, stream_result, message,
                    stream_interrupts >>
    /\ UNCHANGED mainVars
    /\ UNCHANGED jobsVars

\* _run_ffmpeg: readline() returned '' (every writer closed the pipe): break
stream_eof ==
    /\ stream_pc = "loop"
    /\ stderr_pipe = << >>
    /\ stderr_writers = {}
    /\ stream_pc' = "wait"
    /\ UNCHANGED << tqdm_available, stream_duration, use_tqdm, process,
                    process_returncode, stderr_pipe, helper, emitted,
                    current_time, last_time, displayed, stream_sigterm,
                    stream_raised, stream_result, message, stream_interrupts >>
    /\ UNCHANGED mainVars
    /\ UNCHANGED jobsVars

\* _run_ffmpeg: KeyboardInterrupt in the read loop (killpg, raise, finally),
\* or in the process.wait of the finally block
stream_KeyboardInterrupt ==
    /\ stream_pc \in {"loop", "wait"}
    /\ stream_interrupts < MaxInterrupts
    /\ stream_interrupts' = stream_interrupts + 1
    /\ IF stream_pc = "loop"
       THEN /\ stream_sigterm' = TRUE
            /\ stream_raised' = "KeyboardInterrupt"
            /\ stream_pc' = "wait"
            /\ UNCHANGED stream_result
       ELSE /\ stream_raised' = "KeyboardInterrupt"
            /\ stream_result' = "KeyboardInterrupt"
            /\ stream_pc' = "done"
            /\ UNCHANGED stream_sigterm
    /\ UNCHANGED << tqdm_available, stream_duration, use_tqdm, process,
                    process_returncode, stderr_pipe, helper, emitted,
                    current_time, last_time, displayed, message >>
    /\ UNCHANGED mainVars
    /\ UNCHANGED jobsVars

\* _run_ffmpeg: process.wait(timeout=10) returned; a pending exception goes
\* on, otherwise the return code check and process.stderr.read()
stream_finish ==
    /\ stream_pc = "wait"
    /\ process = "exited"
    /\ stream_pc' = "done"
    /\ IF stream_raised # "none"
       THEN /\ stream_result' = stream_raised
            /\ UNCHANGED << message, stderr_pipe, stream_raised >>
       ELSE IF process_returncode \in AcceptedReturnCodes
       THEN /\ stream_result' = "returned"
            /\ UNCHANGED << message, stderr_pipe, stream_raised >>
       ELSE \* read() gives what is left in the pipe
            /\ message' = stderr_pipe
            /\ stderr_pipe' = << >>
            /\ stream_raised' = "RuntimeError"
            /\ stream_result' = "RuntimeError"
    /\ UNCHANGED << tqdm_available, stream_duration, use_tqdm, process,
                    process_returncode, helper, emitted, current_time,
                    last_time, displayed, stream_sigterm, stream_interrupts >>
    /\ UNCHANGED mainVars
    /\ UNCHANGED jobsVars

\* _run_ffmpeg: process.wait(timeout=10) raises TimeoutExpired
stream_timeout ==
    /\ stream_pc = "wait"
    /\ process = "running"
    /\ stream_pc' = "done"
    /\ stream_raised' = "TimeoutExpired"
    /\ stream_result' = "TimeoutExpired"
    /\ UNCHANGED << tqdm_available, stream_duration, use_tqdm, process,
                    process_returncode, stderr_pipe, helper, emitted,
                    current_time, last_time, displayed, stream_sigterm, message,
                    stream_interrupts >>
    /\ UNCHANGED mainVars
    /\ UNCHANGED jobsVars

\* the encoder writes a line to its stderr
stream_encoder_emits ==
    /\ process = "running"
    /\ Len(emitted) < MaxLines
    /\ \E line \in StderrLines :
          /\ stderr_pipe' = Append(stderr_pipe, line)
          /\ emitted' = Append(emitted, line)
    /\ UNCHANGED << tqdm_available, stream_duration, use_tqdm, stream_pc,
                    process, process_returncode, helper, current_time,
                    last_time, displayed, stream_sigterm, stream_raised,
                    stream_result, message, stream_interrupts >>
    /\ UNCHANGED mainVars
    /\ UNCHANGED jobsVars

\* the encoder starts a helper process, which inherits stderr
stream_encoder_forks ==
    /\ process = "running"
    /\ helper = "none"
    /\ helper' = "running"
    /\ UNCHANGED << tqdm_available, stream_duration, use_tqdm, stream_pc,
                    process, process_returncode, stderr_pipe, emitted,
                    current_time, last_time, displayed, stream_sigterm,
                    stream_raised, stream_result, message, stream_interrupts >>
    /\ UNCHANGED mainVars
    /\ UNCHANGED jobsVars

\* the encoder process ends
stream_encoder_exits ==
    /\ process = "running"
    /\ \E rc \in ReturnCodes : process_returncode' = rc
    /\ process' = "exited"
    /\ UNCHANGED << helper, tqdm_available, stream_duration, use_tqdm, stream_pc,
                    stderr_pipe, emitted, current_time, last_time, displayed,
                    stream_sigterm, stream_raised, stream_result, message,
                    stream_interrupts >>
    /\ UNCHANGED mainVars
    /\ UNCHANGED jobsVars

\* the helper process ends
stream_helper_exits ==
    /\ helper = "running"
    /\ helper' = "exited"
    /\ UNCHANGED << tqdm_available, stream_duration, use_tqdm, stream_pc,
                    process, process_returncode, stderr_pipe, emitted,
                    current_time, last_time, displayed, stream_sigterm,
                    stream_raised, stream_result, message, stream_interrupts >>
    /\ UNCHANGED mainVars
    /\ UNCHANGED jobsVars

\* the steps _run_ffmpeg takes by itself
StreamStep ==
    \/ stream_spawn
    \/ stream_readline
    \/ stream_eof
    \/ stream_finish
    \/ stream_timeout

NextStream ==
    \/ stream_spawn
    \/ stream_readline
    \/ stream_eof
    \/ stream_KeyboardInterrupt
    \/ stream_finish
    \/ stream_timeout
    \/ stream_encoder_emits
    \/ stream_encoder_forks
    \/ stream_encoder_exits
    \/ stream_helper_exits

SpecStream == InitStream /\ [][NextStream]_vars

\* ----------------------------------------------------------------------
\* Two jobs in one working directory: the pass-log files they share
\* ----------------------------------------------------------------------
InitJobs ==
    /\ MainIdle
    /\ StreamIdle
    /\ job_pc = [j \in Jobs |-> "pass1"]
    /\ job_ci = [j \in Jobs |-> 1]
    /\ workdir = [p \in PassLogPaths |-> NoJob]
    /\ read_from = [j \in Jobs |-> {}]
    /\ overwrote = [j \in Jobs |-> {}]
    /\ deleted = [j \in Jobs |-> {}]

\* the job whose file at path p is not that of job j, if any
Foreign(j, p) == {workdir[p]} \ {NoJob, j}

\* pass 1 of job j (-pass 1 -passlogfile ffmpeg2pass) writes a pass-log file
jobs_pass1_writes(j) ==
    /\ job_pc[j] = "pass1"
    /\ \E ext \in PassLogFiles :
          LET p == PassLogPath(j, ext)
          IN  /\ workdir' = [workdir EXCEPT ![p] = j]
              /\ overwrote' = [overwrote EXCEPT ![j] = @ \cup Foreign(j, p)]
    /\ UNCHANGED << job_pc, job_ci, read_from, deleted >>
    /\ UNCHANGED << mainVars, streamVars >>

\* _run_ffmpeg(pass1_cmd, ...) returns, or raises and the failure cleanup runs
jobs_pass1_ends(j) ==
    /\ job_pc[j] = "pass1"
    /\ \E ok \in BOOLEAN :
          job_pc' = [job_pc EXCEPT ![j] = IF ok THEN "pass2" ELSE "cleanup"]
    /\ job_ci' = [job_ci EXCEPT ![j] = 1]
    /\ UNCHANGED << workdir, read_from, overwrote, deleted >>
    /\ UNCHANGED << mainVars, streamVars >>

\* pass 2 of job j (-pass 2 -passlogfile ffmpeg2pass) reads a pass-log file
jobs_pass2_reads(j) ==
    /\ job_pc[j] = "pass2"
    /\ \E ext \in PassLogFiles :
          LET p == PassLogPath(j, ext)
          IN  /\ workdir[p] # NoJob
              /\ read_from' = [read_from EXCEPT ![j] = @ \cup {workdir[p]}]
    /\ UNCHANGED << job_pc, job_ci, workdir, overwrote, deleted >>
    /\ UNCHANGED << mainVars, streamVars >>

\* _run_ffmpeg(pass2_cmd, ...) returns or raises: a cleanup loop starts
jobs_pass2_ends(j) ==
    /\ job_pc[j] = "pass2"
    /\ job_pc' = [job_pc EXCEPT ![j] = "cleanup"]
    /\ job_ci' = [job_ci EXCEPT ![j] = 1]
    /\ UNCHANGED << workdir, read_from, overwrote, deleted >>
    /\ UNCHANGED << mainVars, streamVars >>

\* one iteration of a cleanup loop of job j
jobs_cleanup_step(j) ==
    /\ job_pc[j] = "cleanup"
    /\ job_ci[j] <= Len(PassLogExts)
    /\ LET p == PassLogPath(j, PassLogExts[job_ci[j]])
           existing == { q \in PassLogPaths : workdir[q] # NoJob }
           r == RemoveIfExists(existing, p)
       IN  /\ workdir' = [q \in PassLogPaths |->
                             IF q \in r.files THEN workdir[q] ELSE NoJob]
           /\ deleted' = [deleted EXCEPT ![j] = @ \cup Foreign(j, p)]
    /\ job_ci' = [job_ci EXCEPT ![j] = @ + 1]
    /\ UNCHANGED << job_pc, read_from, overwrote >>
    /\ UNCHANGED << mainVars, streamVars >>

\* the cleanup loop of job j is over
jobs_cleanup_done(j) ==
    /\ job_pc[j] = "cleanup"
    /\ job_ci[j] > Len(PassLogExts)
    /\ job_pc' = [job_pc EXCEPT ![j] = "done"]
    /\ UNCHANGED << job_ci, workdir, read_from, overwrote, deleted >>
    /\ UNCHANGED << mainVars, streamVars >>

NextJobs ==
    \/ \E j \in Jobs : jobs_pass1_writes(j)
    \/ \E j \in Jobs : jobs_pass1_ends(j)
    \/ \E j \in Jobs : jobs_pass2_reads(j)
    \/ \E j \in Jobs : jobs_pass2_ends(j)
    \/ \E j \in Jobs : jobs_cleanup_step(j)
    \/ \E j \in Jobs : jobs_cleanup_done(j)

SpecJobs == InitJobs /\ [][NextJobs]_vars

\* ----------------------------------------------------------------------
\* Properties
\* ----------------------------------------------------------------------
Returned == pc = "exited"
NoProcessSpawned == probes = 0 /\ \A p \in 1..2 : proc[p] = "none"

\* C1: when a run that was interrupted during a pass returns, no pass-log
\* file exists and the destination is neither zero-byte nor partial.
C1_InterruptLeavesNothing ==
    (Returned /\ interrupts > 0) =>
        (passlog = {} /\ out \notin {"empty", "partial"})

\* C2: an interrupted run exits with 130, a failed run that was not
\* interrupted exits with 1, a successful run exits with 0.
C2_ExitCodes ==
    Returned =>
        /\ interrupts > 0 => exitCode = 130
        /\ (interrupts = 0 /\ raised # "none") => exitCode = 1
        /\ (interrupts = 0 /\ raised = "none") => exitCode = 0

C4_InterruptStep ==
    (interrupts' = interrupts + 1 /\ pass \in 1..2 /\ proc[pass] = "running")
        => sigterm'[pass]

C4_GroupTerminatedBeforePropagation == [][C4_InterruptStep]_vars

\* the states of the orchestrator's state machine, by position in the code
Phase ==
    CASE pc \in {"start", "construct"} -> "Idle"
      [] pc = "probe" -> "Probing"
      [] pc = "plan" -> "Planning"
      [] pc = "spawn" /\ pass = 1 -> "Pass1Running"
      [] pc \in {"run", "wait"} /\ pass = 1 -> "Pass1Running"
      [] pc = "spawn" /\ pass = 2 -> "Pass1Done"
      [] pc \in {"run", "wait"} /\ pass = 2 -> "Pass2Running"
      [] pc = "cleanup" /\ raised = "none" -> "Verifying"
      [] pc = "verify" -> "Verifying"
      [] pc = "exited" /\ exitCode = 0 -> "Completed"
      [] OTHER -> "Failed"

PhaseOrder ==
    { <<"Idle", "Probing">>, <<"Probing", "Planning">>,
      <<"Planning", "Pass1Running">>, <<"Pass1Running", "Pass1Done">>,
      <<"Pass1Done", "Pass2Running">>, <<"Pass2Running", "Verifying">>,
      <<"Verifying", "Completed">> }

AliveEncoders == { p \in 1..2 : proc[p] = "running" }

C5_OneEncoder ==
    /\ Cardinality(AliveEncoders) <= 1
    /\ proc[2] # "none" => (proc[1] = "exited" /\ returncode[1] \in {0, 255})

C5_PhaseStep ==
    Phase' # Phase => (<<Phase, Phase'>> \in PhaseOrder \/ Phase' = "Failed")

\* C5: at most one encoder process is alive, the pass-2 encoder exists only
\* once the pass-1 encoder has exited with an accepted code, and the phases
\* change only along Idle, Probing, Planning, Pass1Running, Pass1Done,
\* Pass2Running, Verifying, Completed, or to Failed.
C5_SequentialPasses == [](C5_OneEncoder) /\ [][C5_PhaseStep]_vars

\* C5 witness: a run completed after both encoders ran and exited.
C5_Witness ==
    /\ target_size_mb = 10
    /\ resolution_arg = None
    /\ Returned
    /\ exitCode = 0
    /\ proc[1] = "exited"
    /\ proc[2] = "exited"

\* exit codes the claim lets count as success
BenignExit(p) ==
    \/ returncode[p] = 0
    \/ returncode[p] = 255 /\ interrupts > 0

\* C6: a pass counts as successful only with exit code 0, or with 255 after
\* an interruption: pass 2 is started only after such a pass 1, and the
\* success path is taken only after such a pass 2.
C6_OnlyBenignExitSucceeds ==
    /\ pass = 2 => BenignExit(1)
    /\ (pass = 2 /\ pc \in {"cleanup", "verify", "exited"} /\ raised = "none")
           => BenignExit(2)

\* C7: with target_size_mb <= 0 no probe and no encoder is ever spawned and
\* planning is never entered.
C7_InvalidTargetSizeRejected ==
    target_size_mb <= 0 =>
        (NoProcessSpawned /\ pc \in {"start", "construct", "exited"})

\* C8: with a requested resolution that is neither a preset name nor
\* digits-x-digits, no probe and no encoder is ever spawned, and the run
\* that got as far as the constructor ends with the invalid-resolution error.
InvalidResolutionArg ==
    /\ resolution_arg # None
    /\ resolution_arg \notin PresetNames
    /\ ~DigitsXDigits(resolution_arg)

C8_InvalidResolutionRejected ==
    InvalidResolutionArg =>
        /\ NoProcessSpawned
        /\ pc \in {"start", "construct", "exited"}
        /\ (Returned /\ raised \notin {"SystemExit", "Aborted"})
               => raised = "ValueError"

\* the table of the resolution planner
C9_Table(req, size) ==
    CASE req = <<"1","4","4","p">>     -> <<"2","5","6","x","1","4","4">>
      [] req = <<"2","4","0","p">>     -> <<"4","2","6","x","2","4","0">>
      [] req = <<"3","6","0","p">>     -> <<"6","4","0","x","3","6","0">>
      [] req = <<"4","8","0","p">>     -> <<"8","5","4","x","4","8","0">>
      [] req = <<"7","2","0","p">>     -> <<"1","2","8","0","x","7","2","0">>
      [] req = <<"1","0","8","0","p">> -> <<"1","9","2","0","x","1","0","8","0">>
      [] req = None /\ size <= 5       -> <<"2","5","6","x","1","4","4">>
      [] req = None /\ size > 5 /\ size <= 15   -> <<"4","2","6","x","2","4","0">>
      [] req = None /\ size > 15 /\ size <= 50  -> <<"6","4","0","x","3","6","0">>
      [] req = None /\ size > 50 /\ size <= 100 -> <<"8","5","4","x","4","8","0">>
      [] OTHER -> req

C9_InDomain ==
    \/ resolution_arg \in PresetNames
    \/ DigitsXDigits(resolution_arg)
    \/ resolution_arg = None

\* C9: for a preset name, a digits-x-digits string or no request, the
\* constructor never raises and the resolved resolution is the one of the
\* table: the preset's WxH, the string itself, or the size tier's preset.
C9_ResolveTable ==
    C9_InDomain =>
        /\ raised # "ValueError"
        /\ pc \notin {"start", "construct", "exited"}
               => self_resolution = C9_Table(resolution_arg, target_size_mb)
        /\ (pc \in {"spawn", "run", "wait", "cleanup", "verify"}
            /\ (resolution_arg # None \/ target_size_mb <= 100))
               => target_res = C9_Table(resolution_arg, target_size_mb)

\* C9 witness: no resolution requested, 10 MB target, resolved to 426x240
\* and used as the target resolution of the passes.
C9_Witness ==
    /\ resolution_arg = None
    /\ target_size_mb = 10
    /\ pc = "run"
    /\ self_resolution = <<"4","2","6","x","2","4","0">>
    /\ target_res = <<"4","2","6","x","2","4","0">>

\* C10: with no resolution requested and target_size_mb > 100, a run whose
\* probe succeeded adds no scale/pad filter and gets to spawn pass 1.
C10_KeepsSourceResolution ==
    (resolution_arg = None /\ target_size_mb > 100 /\ duration > 0) =>
        /\ ~scaled
        /\ Returned => proc[1] # "none"

\* the bitrate plan of compress() has been computed
Planned == video_bitrate_kbps # NoPlan

\* C11: for every target size > 0 and duration > 0 the planned video bitrate
\* is at least 50 kbps, and when the floor override triggers the job goes on
\* with the adjusted-size report instead of failing
C11_VideoFloor ==
    (Planned /\ target_size_mb > 0 /\ duration > 0) =>
        /\ video_bitrate_kbps >= 50
        /\ floored => raised # "AttributeError"

\* C12: without the floor override the plan stays within the size budget:
\* video_kbps*1000*duration + audio_kbps*1000*duration + overhead_bits
\* <= total_bits = target * 8 * 1024 * 1024, with the audio bitrate 64, 96 or
\* 128 kbps for targets <= 10, <= 50, larger, and the overhead 5%, 3% or 1%
\* of total_bits for targets <= 20, <= 50, larger.  Divided by
\* 1000*duration (duration in hundredths of a second) the inequality reads
\* video_kbps + audio_kbps <= target * (100 - pct) * 2^20 / (125 * duration)
C12_AudioTier ==
    IF target_size_mb <= 10 THEN 64 ELSE IF target_size_mb <= 50 THEN 96 ELSE 128

C12_OverheadTier ==
    IF target_size_mb <= 20 THEN 5 ELSE IF target_size_mb <= 50 THEN 3 ELSE 1

C12_WithinBudget ==
    (Planned /\ ~floored) =>
        /\ audio_bitrate_kbps = C12_AudioTier
        /\ overhead_percent = C12_OverheadTier
        /\ video_bitrate_kbps + audio_bitrate_kbps
             <= MulDiv(target_size_mb * (100 - C12_OverheadTier), TwoPow20,
                       125 * duration)

\* a 10 MB target for a 600 s source: 68 kbps video, 64 kbps audio, 5%
C12_Witness ==
    /\ Planned /\ ~floored
    /\ target_size_mb = 10 /\ duration = 60000
    /\ video_bitrate_kbps = 68 /\ audio_bitrate_kbps = 64
    /\ overhead_percent = 5
    /\ pc = "run"

\* C13: within one pass the elapsed times shown are non-decreasing and lie in
\* [0, duration], with the progress bar and with the textual report, for
\* every sequence of progress lines (markers below an earlier one or beyond
\* the duration included)
C13_ElapsedMonotoneInRange ==
    \A i \in 1..Len(displayed) :
        /\ displayed[i] >= 0
        /\ displayed[i] <= stream_duration
        /\ i > 1 => displayed[i - 1] <= displayed[i]

\* C14: pass 2 is started only if pass-log files exist after pass 1;
\* otherwise the job fails without spawning pass 2
C14_SpawnStep ==
    (proc[2] = "none" /\ proc'[2] = "running") => passlog # {}

C14_Pass2NeedsPassLog == [][C14_SpawnStep]_vars

\* C15: the job completes with exit status 0 only if the destination file
\* exists and is not empty; a deviation of more than 10% from the target is
\* a warning and does not fail the job
C15_CompletedMeansOutput ==
    /\ exitCode = 0 => out \notin {"absent", "empty"}
    /\ warned => exitCode = 0

\* compress(): one whole cleanup loop over the directory content `files`
RECURSIVE CleanupFrom(_, _)
CleanupFrom(i, r) ==
    IF i > Len(PassLogExts) \/ r.error # "none" THEN r
    ELSE CleanupFrom(i + 1, RemoveIfExists(r.files, PassLogExts[i]))

CleanupLoop(files) == CleanupFrom(1, [files |-> files, error |-> "none"])

\* C18: the pass-log cleanup is idempotent: for a file that is missing it
\* does nothing and raises nothing, it leaves every other file as it is, and
\* running it twice gives what running it once gives
C18_CleanupState ==
    /\ raised # "FileNotFoundError"
    /\ pc = "cleanup" =>
          /\ \A f \in PassLogFiles \ passlog :
                RemoveIfExists(passlog, f) = [files |-> passlog, error |-> "none"]
          /\ CleanupLoop(passlog).error = "none"
          /\ CleanupLoop(CleanupLoop(passlog).files) = CleanupLoop(passlog)

C18_CleanupStep ==
    (pc = "cleanup" /\ ci' = ci + 1) =>
        /\ out' = out
        /\ passlog' = passlog \ {PassLogExts[ci]}
        /\ raised' = raised

C18_CleanupIdempotent == [](C18_CleanupState) /\ [][C18_CleanupStep]_vars

\* a cleanup loop has run on the success path with the log file there and
\* the .mbtree file missing
C18_Witness ==
    /\ target_size_mb = 10
    /\ resolution_arg = None
    /\ pc = "cleanup"
    /\ ci = Len(PassLogExts) + 1
    /\ raised = "none"
    /\ written = {""}
    /\ passlog = {}

\* C19: when the job returns, with any outcome, no encoder process that the
\* job spawned is still running
C19_NoEncoderLeftRunning ==
    Returned => \A p \in 1..2 : proc[p] # "running"

\* C17: when the encoder ends with a failing exit code, the error raised
\* carries the encoder's diagnostic output: lines the progress reader has
\* consumed are not lost
C17_DiagnosticsKept ==
    stream_result = "RuntimeError" =>
        \A i \in 1..Len(emitted) :
            emitted[i][1] = "err" =>
                \E j \in 1..Len(message) : message[j] = emitted[i]

\* C20: once the encoder process has exited the pass goes on to its result:
\* _run_ffmpeg is never left blocked on reading the stream or on waiting for
\* the process, even while a helper process holds the stream open
C20_NotBlockedAfterExit ==
    (process = "exited" /\ stream_result = "none") => ENABLED StreamStep

\* C16: two jobs running at the same time in one working directory never
\* read, overwrite or delete each other's pass-log files
C16_JobsIsolated ==
    \A j \in Jobs :
        /\ read_from[j] \subseteq {j}
        /\ overwrote[j] = {}
        /\ deleted[j] = {}

\* C21: on every fatal path that ends with exit status 1 (probe failure,
\* configuration error, encoder failure in either pass, missing output) no
\* zero-byte destination file exists when the program exits
C21_FatalPath ==
    /\ Returned
    /\ exitCode = 1
    /\ raised \in {"ProbeError", "ValueError", "AttributeError", "RuntimeError",
                   "OutputMissing"}

C21_NoEmptyDestinationOnFailure == C21_FatalPath => out # "empty"

\* C22: a cleanup of the pass-log files that has started runs to its end:
\* an interruption that arrives between or during the deletions never
\* leaves a pass-log file behind
C22_InterruptStep ==
    (pc = "cleanup" /\ interrupts' = interrupts + 1) =>
        (pc' = "exited" => passlog' = {})

C22_CleanupNotCancellable == [][C22_InterruptStep]_vars

\* the value that follows `flag` in an argument vector, if any
Absent == "(absent)"

Opt(cmd, flag) ==
    IF \E i \in 1..(Len(cmd) - 1) : cmd[i] = flag
    THEN cmd[(CHOOSE i \in 1..(Len(cmd) - 1) : cmd[i] = flag) + 1]
    ELSE Absent

HasArg(cmd, a) == \E i \in 1..Len(cmd) : cmd[i] = a

CommandsBuilt == pass1_cmd # << >>

\* what C23 says of a pair of commands and the plan they were built from
C23_Pair ==
    CommandsBuilt =>
        /\ \A f \in {"-i", "-c:v", "-profile:v", "-vf", "-b:v", "-passlogfile"} :
              Opt(pass1_cmd, f) = Opt(pass2_cmd, f)
        /\ Opt(pass1_cmd, "-i") = input_path
        /\ Opt(pass1_cmd, "-c:v") # Absent
        /\ Opt(pass1_cmd, "-profile:v") # Absent
        /\ Opt(pass1_cmd, "-passlogfile") # Absent
        /\ Opt(pass1_cmd, "-b:v") = ToString(video_bitrate_kbps) \o "k"
        /\ Opt(pass1_cmd, "-pass") = "1"
        /\ HasArg(pass1_cmd, "-an")
        /\ ~HasArg(pass1_cmd, "-c:a")
        /\ Opt(pass1_cmd, "-f") = "null"
        /\ pass1_cmd[Len(pass1_cmd)] = "/dev/null"
        /\ Opt(pass2_cmd, "-pass") = "2"
        /\ Opt(pass2_cmd, "-maxrate:v") = ToString(2 * video_bitrate_kbps) \o "k"
        /\ Opt(pass2_cmd, "-bufsize:v") = ToString(4 * video_bitrate_kbps) \o "k"
        /\ ~HasArg(pass2_cmd, "-an")
        /\ Opt(pass2_cmd, "-c:a") # Absent
        /\ Opt(pass2_cmd, "-b:a") = ToString(audio_bitrate_kbps) \o "k"
        /\ pass2_cmd[Len(pass2_cmd)] = output_path
        /\ (Opt(pass1_cmd, "-vf") # Absent) <=> (target_res # original_res)

\* the step that builds the commands, and every later step of the job
C23_Step ==
    /\ (pass1_cmd' # pass1_cmd \/ pass2_cmd' # pass2_cmd) => C23_Pair'
    /\ CommandsBuilt =>
          UNCHANGED << pass1_cmd, pass2_cmd, video_bitrate_kbps,
                       audio_bitrate_kbps, target_res, original_res >>

\* C23: the two commands of a job have the same input, codec, profile,
\* filter, video bitrate and pass-log name; pass 1 disables audio and writes
\* to the null sink; pass 2 has maxrate = 2 x and bufsize = 4 x the video
\* bitrate, encodes audio at the planned audio bitrate and writes the
\* destination; the scale-then-pad filter is there exactly when the target
\* resolution differs from the source resolution.  The commands are built
\* once, with these properties, and nothing they were built from changes
\* while they are in use.
C23_PassCommands == [][C23_Step]_vars

\* a 10 MB target for a 600 s source of 256x144: both commands scale and pad
\* to 426x240 at 68 kbps, and pass 2 is running
C23_Witness ==
    /\ CommandsBuilt
    /\ target_size_mb = 10 /\ resolution_arg = None /\ duration = 60000
    /\ original_res = <<"2", "5", "6", "x", "1", "4", "4">>
    /\ Opt(pass1_cmd, "-vf")
         = "scale='min(426,iw*240/ih)':'min(240,ih*426/iw)',pad=426:240:(ow-iw)/2:(oh-ih)/2"
    /\ Opt(pass2_cmd, "-vf") = Opt(pass1_cmd, "-vf")
    /\ Opt(pass2_cmd, "-b:v") = "68k"
    /\ Opt(pass2_cmd, "-maxrate:v") = "136k"
    /\ Opt(pass2_cmd, "-bufsize:v") = "272k"
    /\ Opt(pass2_cmd, "-b:a") = "64k"
    /\ pass = 2 /\ proc[2] = "running"

\* a command pair without the filter: the requested 9x9 is the source's
C23_NoFilter ==
    /\ CommandsBuilt
    /\ target_res = original_res
    /\ Opt(pass1_cmd, "-vf") = Absent

\* what C24 promises of the step taken from the program's start
C24_Refusal ==
    /\ pc' = "exited"
    /\ interrupts' = interrupts => exitCode' = 1
    /\ NoProcessSpawned'
    /\ out' = out

\* C24 as stated: with an existing destination, without the force option
\* and with an answer to the prompt that is not 'y', the program exits with
\* code 1, spawns no probe or encoder process and leaves the destination
\* unchanged
C24_AsStated ==
    [][(pc = "start" /\ out # "absent" /\ ~force /\ response # "y")
          => C24_Refusal]_vars

\* C24, amended: the same for an answer that is neither 'y' nor 'Y' (an
\* interrupt at the prompt, which is no answer, ends the program without
\* exit code 1, and as well without a process and with the file unchanged)
C24_OverwriteRefused ==
    [][(pc = "start" /\ out # "absent" /\ ~force /\ response \notin {"y", "Y"})
          => C24_Refusal]_vars

\* the user declined to overwrite a complete destination: the program has
\* exited with code 1, nothing was spawned and the file is as it was
C24_Witness ==
    /\ Returned /\ raised = "Aborted" /\ exitCode = 1
    /\ ~force /\ response \in {"n", ""}
    /\ out = "existing"
    /\ NoProcessSpawned
    /\ interrupts = 0

====
